---- MODULE Spec2Model ----
(***************************************************************************)
(* Upload scheduling in propertio.                                         *)
(*                                                                         *)
(* Part I  : class UploadManager (src/lib/uploadManager.ts): a FIFO queue  *)
(*           of upload tasks, a set of active uploads and a concurrency    *)
(*           limit.                                                        *)
(* Part II : the React hook useUploadManager (hooks/useUploadManager.ts):  *)
(*           per-batch polling admission loop, per-upload status records,  *)
(*           retry.                                                        *)
(*                                                                         *)
(* JavaScript is run-to-completion: every action below is one macrotask    *)
(* (a public call, a timer callback, the settlement of a network promise   *)
(* together with the promise reactions it triggers).                       *)
(***************************************************************************)
EXTENDS Integers, Sequences, FiniteSets, TLC

(***************************************************************************)
(* Bounds of the model.                                                    *)
(***************************************************************************)
\* number of task ids the UploadManager may issue (uuidv4 values)
MaxTasks == 5
\* largest number of files passed to one addToQueue call
MaxAdd == 5
\* largest maxConcurrent value passed to the constructor (besides the
\* out-of-range probes)
MaxCfg == 3
\* number of distinct files (uuids) the page can hand to the hook
MaxFiles == 4
\* number of uploadFiles calls
MaxBatches == 2
\* number of caller and timer events: uploadFiles, accepted retryUpload,
\* removeUpload and clearUploads calls, progress interval callbacks
MaxEvents == 3
\* number of macrotasks that change uploads before React renders again
MaxStale == 2
\* number of progress interval callbacks of the UploadManager that report
MaxTicks == 1
\* number of task ids issued in the runs that observe the callbacks
MaxObserved == 4
\* number of caller events, timer events and transfer outcomes together in
\* the runs that follow a removed task
MaxFollowed == 4
\* number of caller and timer events in the runs with a single file
MaxCalls == 5
\* number of macrotasks that change uploads before React renders again in
\* the runs with a single file
MaxPending == 3

\* files that get a uuid from the post page
MaxDrop == 2

(***************************************************************************)
(* Program constants.                                                      *)
(***************************************************************************)
DefaultMaxConcurrent == 3
MinLimit == 1
MaxLimit == 10

\* project rules: maximum 3 retries per failed upload
RetryLimit == 3

\* const maxConcurrentUploads = 3
maxConcurrentUploads == 3
\* progress set when an upload starts, the interval's step and its ceiling
StartProgress == 10
ProgressStep == 10
ProgressCeiling == 90
FullProgress == 100

TaskIds == 1..MaxTasks
FileIds == 1..MaxFiles
BatchIds == 1..MaxBatches
Owners == 0..MaxBatches

Min(a, b) == IF a < b THEN a ELSE b
Max(a, b) == IF a > b THEN a ELSE b
Range(s) == {s[i] : i \in 1..Len(s)}

\* the optional field config.maxConcurrent: {} is "undefined", {n} is n
ConfigInputs == {{}} \cup {{n} : n \in (-1..MaxCfg) \cup {MaxLimit + 1}}

VARIABLES
    \* ---- process.env when the UploadManager is constructed
    env,            \* the settings of the blob store that are set (and not empty)
    \* ---- UploadManager fields
    queue,          \* this.queue: sequence of task ids, head first
    activeUploads,  \* this.activeUploads: set of task ids
    maxConcurrent,  \* this.maxConcurrent
    \* ---- environment and observation of the UploadManager
    nextTaskId,     \* number of uuids issued so far by addToQueue
    task,           \* task id -> "none" | "queued" | "active" | "ok" | "err" |
                    \* "removed" (by removeFromQueue) | "cleared" (by clearQueue)
    admitted,       \* sequence of task ids in the order processQueue admitted them
    released,       \* task id -> number of times it was deleted from activeUploads
    returned,       \* "true" | "false": value returned by the last removeFromQueue call; "none" before it
    calls,          \* task id -> the callbacks of the task invoked so far, in order
    ticks,          \* number of progress interval callbacks that reported so far
    \* ---- useUploadManager: React state
    uploads,        \* useState uploads, every queued updater applied: array of UploadStatus
    uploadsView,    \* the uploads value of the last render, captured by retryUpload
    isUploading,    \* useState isUploading
    \* ---- useUploadManager: locals of the uploadFiles calls (one per batch)
    batches,        \* number of uploadFiles calls made
    fileQueue,      \* batch -> fileQueue of that call
    activeUploadsSet, \* batch -> activeUploadsSet of that call's processQueue
    loop,           \* batch -> "none" | "sleeping" | "done": position of processQueue
    \* ---- environment and observation of the hook
    transfers,      \* <<file id, owner>> -> number of uploadSingleFile calls awaiting the API;
                    \* owner is the batch whose set holds the id, 0 for a set made by retryUpload
    attempts,       \* file id -> number of uploadSingleFile calls started
    retries,        \* file id -> number of retryUpload calls that passed the guard
    events,         \* number of caller and timer events so far
    submitted,      \* number of files passed to uploadFiles so far
    stored,         \* number of objects the images route has put into the blob store
    cancelled,      \* file ids removed by removeUpload while queued and not submitted again
    cleared,        \* file ids that waited in a fileQueue when clearUploads was called
                    \* and were not submitted again
    stale,          \* number of macrotasks that changed uploads since the last render
    imageType,      \* file id -> whether file.type starts with 'image/'
    \* ---- the post page
    pageFiles,      \* useState files: the uuids of the selected files, in order
    dropped,        \* the files the page gave a uuid so far, in the order of the
                    \* uuids: the n-th is the file with uuid n
    \* ---- the hook variant that keeps its active set in React state
    activeUploadsState \* useState activeUploads: [shared |-> whether the state still is
                    \* the Set object the running uploadFiles call captured,
                    \* ids |-> the upload ids in it]

umVars == <<env, queue, activeUploads, maxConcurrent, nextTaskId, task, admitted, released,
           returned, calls, ticks>>

hookVars == <<uploads, uploadsView, isUploading, batches, fileQueue, activeUploadsSet, loop,
              transfers, attempts, retries, events, submitted, stored, cancelled, cleared, stale,
              imageType>>

otherVars == <<pageFiles, dropped, activeUploadsState>>

vars == <<env, queue, activeUploads, maxConcurrent, nextTaskId, task, admitted, released,
          returned, calls, ticks,
          uploads, uploadsView, isUploading, batches, fileQueue, activeUploadsSet, loop,
          transfers, attempts, retries, events, submitted, stored, cancelled, cleared, stale,
          imageType, pageFiles, dropped, activeUploadsState>>

(***************************************************************************)
(* Part I: UploadManager                                                   *)
(***************************************************************************)

\* Math.max(1, Math.min(10, n))
clampLimit(n) == Max(MinLimit, Min(MaxLimit, n))

\* constructor: maxConcurrent after applying the optional configuration
constructorLimit(cfg) ==
    IF cfg = {} THEN DefaultMaxConcurrent
    ELSE clampLimit(CHOOSE n \in cfg : TRUE)

\* faulty variant: the slots already taken are not subtracted
availableSlotsNoActive(max, active) == max

\* const availableSlots = this.maxConcurrent - this.activeUploads.size
availableSlots(max, active) == max - Cardinality(active)

\* faulty variant: takes the last n elements instead of the first
spliceFromTail(q, n) ==
    LET k == Min(n, Len(q)) IN
    [taken |-> SubSeq(q, Len(q) - k + 1, Len(q)), rest |-> SubSeq(q, 1, Len(q) - k)]

\* this.queue.splice(0, n): removes and returns the first n elements
spliceHead(q, n) ==
    LET k == Min(n, Len(q)) IN
    [taken |-> SubSeq(q, 1, k), rest |-> SubSeq(q, k + 1, Len(q))]

\* processQueue(): the early return, the splice and the forEach that adds
\* every taken task to activeUploads and starts its uploadFile
processQueue(q, active, max) ==
    IF Cardinality(active) >= max \/ Len(q) = 0
    THEN [queue |-> q, active |-> active, started |-> <<>>]
    ELSE LET s == spliceHead(q, availableSlots(max, active)) IN
         [queue |-> s.rest, active |-> active \cup Range(s.taken), started |-> s.taken]

\* faulty variant: the id is deleted after a successful upload only
deleteOnSuccessOnly(active, id, ok) == IF ok THEN active \ {id} ELSE active

\* .finally(() => { this.activeUploads.delete(task.id); ... })
deleteActive(active, id, ok) == active \ {id}

\* faulty variant: the queue is not processed again after an upload ends
continueNever(q, active, max) == [queue |-> q, active |-> active, started |-> <<>>]

\* faulty variant: every waiting task is started when an upload ends
continueWithAll(q, active, max) ==
    [queue |-> <<>>, active |-> active \cup Range(q), started |-> q]

\* .finally(() => { ...; this.processQueue(); })
continueProcessing(q, active, max) == processQueue(q, active, max)

\* faulty variant: a task whose upload failed is put back into the queue
queueWithFailed(q, id, ok) == IF ok THEN q ELSE Append(q, id)

\* the queue after uploadFile(task) settled: neither the try block nor the
\* catch block (task.onError?.(error)) touches this.queue
queueAfterUpload(q, id, ok) == q

\* status map after processQueue started the uploads of the tasks in started
startTasks(t, started) ==
    [i \in TaskIds |-> IF i \in Range(started) THEN "active" ELSE t[i]]

\* uploadFile after its awaits: onProgress(100) and onComplete(publicUrl)
\* in the try block, onError(error) in the catch block
outcomeCalls(ok) ==
    IF ok THEN <<"onProgress", "onComplete">> ELSE <<"onError">>

\* faulty variant: an id that is not in the queue selects the last task
findIndexOrLast(q, id) ==
    LET hits == {i \in 1..Len(q) : q[i] = id} IN
    IF hits = {} THEN Len(q) - 1
    ELSE (CHOOSE i \in hits : \A j \in hits : i <= j) - 1

\* this.queue.findIndex(task => task.id === taskId): 0-based, -1 if none
findIndex(q, id) ==
    LET hits == {i \in 1..Len(q) : q[i] = id} IN
    IF hits = {} THEN -1
    ELSE (CHOOSE i \in hits : \A j \in hits : i <= j) - 1

\* faulty variant: splice(index) removes the task and all tasks behind it
spliceRest(q, index) == SubSeq(q, 1, index)

\* this.queue.splice(index, 1)
spliceOne(q, index) == SubSeq(q, 1, index) \o SubSeq(q, index + 2, Len(q))

\* the environment variables the constructor reads for the blob store
Settings == {"CLOUDFLARE_R2_ACCOUNT_ID", "CLOUDFLARE_R2_ACCESS_KEY_ID",
             "CLOUDFLARE_R2_SECRET_ACCESS_KEY", "CLOUDFLARE_R2_BUCKET_NAME"}

\* if (!process.env.CLOUDFLARE_R2_ACCESS_KEY_ID ||
\*     !process.env.CLOUDFLARE_R2_SECRET_ACCESS_KEY) throw new Error(...)
constructorThrows(e) ==
    \/ "CLOUDFLARE_R2_ACCESS_KEY_ID" \notin e
    \/ "CLOUDFLARE_R2_SECRET_ACCESS_KEY" \notin e

\* the fields as the constructor and the field initialisers leave them
InitFields ==
    /\ queue = <<>>
    /\ activeUploads = {}
    /\ \E cfg \in ConfigInputs : maxConcurrent = constructorLimit(cfg)
    /\ nextTaskId = 0
    /\ task = [i \in TaskIds |-> "none"]
    /\ admitted = <<>>
    /\ released = [i \in TaskIds |-> 0]
    /\ returned = "none"
    /\ calls = [i \in TaskIds |-> <<>>]
    /\ ticks = 0

\* new UploadManager(config) in a fully configured deployment
InitUM ==
    /\ env = Settings
    /\ InitFields

\* const taskId = uuidv4() for each of the k files, in file order, and
\* return taskIds: the uuids are numbered in the order they are drawn,
\* issued being the number drawn before the call
taskIds(issued, k) == [i \in 1..k |-> issued + i]

\* addToQueue(files, propertyId): one task with a fresh uuid per file is
\* pushed, then processQueue() runs, then the task ids are returned
uploadManager_addToQueue(k) ==
    /\ nextTaskId + k <= MaxTasks
    /\ LET ids == taskIds(nextTaskId, k)
           p == processQueue(queue \o ids, activeUploads, maxConcurrent)
       IN /\ queue' = p.queue
          /\ activeUploads' = p.active
          /\ admitted' = admitted \o p.started
          /\ task' = startTasks([i \in TaskIds |-> IF i \in Range(ids) THEN "queued" ELSE task[i]],
                                p.started)
    /\ nextTaskId' = nextTaskId + k
    /\ UNCHANGED <<maxConcurrent, released, returned, calls, ticks>>
    /\ UNCHANGED env

\* the call made by a caller other than the hooks
addToQueue(k) ==
    /\ uploadManager_addToQueue(k)
    /\ UNCHANGED hookVars
    /\ UNCHANGED otherVars

\* uploadFile(task) settles (ok: the PutObject send resolved; otherwise the
\* catch block ran), then the finally reaction of processQueue runs
uploadManager_uploadFile(id, ok) ==
    /\ task[id] = "active"
    /\ LET act == deleteActive(activeUploads, id, ok)
           p == continueProcessing(queueAfterUpload(queue, id, ok), act, maxConcurrent)
       IN /\ queue' = p.queue
          /\ activeUploads' = p.active
          /\ admitted' = admitted \o p.started
          /\ task' = startTasks([task EXCEPT ![id] = IF ok THEN "ok" ELSE "err"], p.started)
          /\ released' = [released EXCEPT ![id] = @ + (IF id \in activeUploads /\ id \notin act THEN 1 ELSE 0)]
    /\ calls' = [calls EXCEPT ![id] = @ \o outcomeCalls(ok)]
    /\ UNCHANGED <<maxConcurrent, nextTaskId, returned, ticks>>
    /\ UNCHANGED env

\* the call made by a caller other than the hooks
uploadFileSettles(id, ok) ==
    /\ uploadManager_uploadFile(id, ok)
    /\ UNCHANGED hookVars
    /\ UNCHANGED otherVars

uploadSucceeds(id) == uploadFileSettles(id, TRUE)
uploadFails(id) == uploadFileSettles(id, FALSE)

\* the progress interval of uploadFile(task) fires and reports: it is set
\* when the upload starts and cleared in the try block only, so it is still
\* running after a failure
uploadManager_onProgress(id) ==
    /\ task[id] \in {"active", "err"}
    /\ ticks < MaxTicks
    /\ ticks' = ticks + 1
    /\ calls' = [calls EXCEPT ![id] = Append(@, "onProgress")]
    /\ UNCHANGED <<queue, activeUploads, maxConcurrent, nextTaskId, task, admitted, released,
                   returned>>
    /\ UNCHANGED env

\* the call made by a caller other than the hooks
progressReports(id) ==
    /\ uploadManager_onProgress(id)
    /\ UNCHANGED hookVars
    /\ UNCHANGED otherVars

\* clearQueue(): this.queue = []
uploadManager_clearQueue ==
    /\ queue' = <<>>
    /\ task' = [i \in TaskIds |-> IF i \in Range(queue) THEN "cleared" ELSE task[i]]
    /\ UNCHANGED <<activeUploads, maxConcurrent, nextTaskId, admitted, released,
                   returned, calls, ticks>>
    /\ UNCHANGED env

\* the call made by a caller other than the hooks
clearQueue ==
    /\ uploadManager_clearQueue
    /\ UNCHANGED hookVars
    /\ UNCHANGED otherVars

\* removeFromQueue(taskId): findIndex, splice(index, 1), return true;
\* return false when there is no such task in the queue
uploadManager_removeFromQueue(id) ==
    /\ LET index == findIndex(queue, id) IN
       IF index > -1
       THEN /\ queue' = spliceOne(queue, index)
            /\ task' = [i \in TaskIds |->
                           IF i \in Range(queue) /\ i \notin Range(queue') THEN "removed"
                           ELSE task[i]]
            /\ returned' = "true"
       ELSE /\ returned' = "false"
            /\ UNCHANGED <<queue, task>>
    /\ UNCHANGED <<activeUploads, maxConcurrent, nextTaskId, admitted, released,
                   calls, ticks>>
    /\ UNCHANGED env

\* the call made by a caller other than the hooks
removeFromQueue(id) ==
    /\ uploadManager_removeFromQueue(id)
    /\ UNCHANGED hookVars
    /\ UNCHANGED otherVars


(***************************************************************************)
(* Part II: useUploadManager                                               *)
(***************************************************************************)

\* the files the page can submit: its selected files so far, each with the
\* uuid it got when dropped (the page keeps them after a submission)
FileBatches == {[i \in 1..k |-> i] : k \in 0..MaxFiles}

\* error of an UploadStatus: "undefined" when the field is not set
Undefined == "undefined"

\* url of an UploadStatus: 0 when the field is not set (or set to
\* undefined), otherwise the locator of the n-th object put into the store
NoUrl == 0

\* what can happen to one request in the images route: "ok" (the handler
\* reaches its loop), "notFound" (Property.findById finds nothing),
\* "configMissing" (R2 credentials unset), "dbError" (an exception reaches
\* the outer catch)
RouteConds == {"ok", "notFound", "configMissing", "dbError"}

\* the conditions drawn for a request
RequestConds == {"ok", "notFound"}

\* file.type.startsWith('image/') in the loop of the images route
fileIsImage(id) == imageType[id]

\* POST /properties/[id]/images with one image: the HTTP status is ok or
\* not, and the JSON body. key is the locator of the object if it is put.
POST(cond, isImage, putOk, key) ==
    IF cond = "notFound"
    THEN [ok |-> FALSE, success |-> FALSE, urls |-> <<>>, error |-> "Property not found"]
    ELSE IF cond = "configMissing"
    THEN [ok |-> FALSE, success |-> FALSE, urls |-> <<>>,
          error |-> "Cloudflare R2 configuration missing"]
    ELSE IF cond = "dbError"
    THEN [ok |-> FALSE, success |-> FALSE, urls |-> <<>>, error |-> "Internal server error"]
    ELSE [ok |-> TRUE, success |-> TRUE,
          urls |-> IF isImage /\ putOk THEN <<key>> ELSE <<>>,
          error |-> Undefined]

\* apiClient.uploadPropertyImages: the ApiResponse made of the HTTP response
uploadPropertyImages(res) ==
    IF ~res.ok
    THEN [success |-> FALSE, hasUrls |-> FALSE, urls |-> <<>>, error |-> res.error]
    ELSE [success |-> TRUE, hasUrls |-> TRUE, urls |-> res.urls, error |-> Undefined]

\* response.data!.urls[0]: undefined when the array is empty
firstUrl(urls) == IF Len(urls) = 0 THEN NoUrl ELSE urls[1]

\* response.error || 'Upload failed'
errorText(response) == IF response.error = Undefined THEN "Upload failed" ELSE response.error

\* files.map(file => ({ id: file.uuid, ..., progress: 0, status: 'queued' }))
newUploads(files) ==
    [i \in 1..Len(files) |->
        [id |-> files[i], status |-> "queued", progress |-> 0, url |-> NoUrl, error |-> Undefined]]

\* return newUploads.map(upload => upload.id)
uploadIds(files) == [i \in 1..Len(files) |-> newUploads(files)[i].id]

\* uploadSingleFile up to its await:
\* prev.map(upload => upload.id === uploadId
\*     ? { ...upload, status: 'uploading', progress: 10 } : upload)
markUploading(prev, uploadId) ==
    [i \in 1..Len(prev) |->
        IF prev[i].id = uploadId
        THEN [prev[i] EXCEPT !.status = "uploading", !.progress = StartProgress]
        ELSE prev[i]]

RECURSIVE markAllUploading(_, _)
markAllUploading(prev, ids) ==
    IF ids = <<>> THEN prev
    ELSE markAllUploading(markUploading(prev, Head(ids)), Tail(ids))

\* the progress interval callback
bumpProgress(prev, uploadId) ==
    [i \in 1..Len(prev) |->
        IF prev[i].id = uploadId /\ prev[i].status = "uploading"
        THEN [prev[i] EXCEPT !.progress = Min(prev[i].progress + ProgressStep, ProgressCeiling)]
        ELSE prev[i]]

\* uploadSingleFile after its await, response.success && response.data?.urls
markCompleted(prev, uploadId, url) ==
    [i \in 1..Len(prev) |->
        IF prev[i].id = uploadId
        THEN [prev[i] EXCEPT !.progress = FullProgress, !.status = "completed", !.url = url]
        ELSE prev[i]]

\* uploadSingleFile after its await, otherwise
markError(prev, uploadId, error) ==
    [i \in 1..Len(prev) |->
        IF prev[i].id = uploadId
        THEN [prev[i] EXCEPT !.status = "error", !.error = error]
        ELSE prev[i]]

\* retryUpload: { ...upload, status: 'queued', progress: 0, error: undefined }
markQueued(prev, uploadId) ==
    [i \in 1..Len(prev) |->
        IF prev[i].id = uploadId
        THEN [prev[i] EXCEPT !.status = "queued", !.progress = 0, !.error = Undefined]
        ELSE prev[i]]

\* uploads.find(u => u.id === uploadId): {} when there is none
findUpload(ups, uploadId) ==
    LET hits == {i \in 1..Len(ups) : ups[i].id = uploadId} IN
    IF hits = {} THEN {}
    ELSE {ups[CHOOSE i \in hits : \A j \in hits : i <= j]}

\* the inner while of processQueue: shift files off fileQueue into
\* activeUploadsSet while there is capacity
startNewUploads(fq, active) ==
    LET k == Min(Len(fq), Max(0, maxConcurrentUploads - Cardinality(active))) IN
    [rest |-> SubSeq(fq, k + 1, Len(fq)),
     active |-> active \cup Range(SubSeq(fq, 1, k)),
     started |-> SubSeq(fq, 1, k)]

\* faulty variant: the uploadSingleFile calls are awaited where they are
\* made, none is pending afterwards
addAwaitedTransfers(tr, started, owner) == tr

\* bookkeeping of the uploadSingleFile calls started for the ids in started
\* (they are not awaited)
addTransfers(tr, started, owner) ==
    [x \in DOMAIN tr |-> tr[x] + (IF x[2] = owner /\ x[1] \in Range(started) THEN 1 ELSE 0)]

addAttempts(at, started) ==
    [i \in FileIds |-> at[i] + (IF i \in Range(started) THEN 1 ELSE 0)]

\* a macrotask of the hook: if it changes uploads, React has one more
\* update to render
macrotask ==
    stale' = IF uploads' # uploads THEN stale + 1 ELSE stale

RECURSIVE sumOver(_, _)
sumOver(f, S) ==
    IF S = {} THEN 0
    ELSE LET x == CHOOSE y \in S : TRUE IN f[x] + sumOver(f, S \ {x})

SumRetries == sumOver(retries, FileIds)

\* the files of the page are images: handleDropZoneDrop keeps a dropped
\* file only if file.type.startsWith('image/')
PageFileTypes == [i \in FileIds |-> TRUE]

\* useState<FileWithUUID[]>([]) of the post page, no file dropped yet
InitFiles ==
    /\ pageFiles = <<>>
    /\ dropped = <<>>

\* useState<Set<string>>(new Set()) of the variant with the active set in
\* React state
InitActiveUploads ==
    activeUploadsState = [shared |-> TRUE, ids |-> {}]

\* the state of the hook at its first render
InitUploads ==
    /\ InitFiles
    /\ InitActiveUploads
    /\ uploads = <<>>
    /\ uploadsView = <<>>
    /\ isUploading = FALSE
    /\ batches = 0
    /\ fileQueue = [b \in BatchIds |-> <<>>]
    /\ activeUploadsSet = [b \in BatchIds |-> {}]
    /\ loop = [b \in BatchIds |-> "none"]
    /\ transfers = [x \in FileIds \X Owners |-> 0]
    /\ attempts = [i \in FileIds |-> 0]
    /\ retries = [i \in FileIds |-> 0]
    /\ events = 0
    /\ submitted = 0
    /\ stored = 0
    /\ cancelled = {}
    /\ cleared = {}
    /\ stale = 0

\* the hook used by the post page
InitHook ==
    /\ imageType = PageFileTypes
    /\ InitUploads

\* uploadFiles(files, propertyId), up to the first await of processQueue
uploadFiles(files) ==
    /\ batches < MaxBatches
    /\ LET b == batches + 1
           s == startNewUploads(files, {})
       IN /\ batches' = b
          /\ uploads' = markAllUploading(newUploads(files), s.started)
          /\ fileQueue' = [fileQueue EXCEPT ![b] = s.rest]
          /\ activeUploadsSet' = [activeUploadsSet EXCEPT ![b] = s.active]
          /\ transfers' = addTransfers(transfers, s.started, b)
          /\ attempts' = addAttempts(attempts, s.started)
          /\ IF files = <<>>
             THEN isUploading' = FALSE /\ loop' = [loop EXCEPT ![b] = "done"]
             ELSE isUploading' = TRUE /\ loop' = [loop EXCEPT ![b] = "sleeping"]
    /\ submitted + Len(files) <= MaxFiles
    /\ submitted' = submitted + Len(files)
    /\ cancelled' = cancelled \ Range(files)
    /\ cleared' = cleared \ Range(files)
    /\ UNCHANGED stored
    /\ events' = events + 1
    /\ UNCHANGED <<uploadsView, retries>>
    /\ macrotask
    /\ UNCHANGED imageType
    /\ UNCHANGED umVars
    /\ UNCHANGED otherVars

\* processQueue of batch b resumes after its 100 ms sleep
processQueueWakes(b) ==
    /\ loop[b] = "sleeping"
    /\ IF Len(fileQueue[b]) > 0 \/ Cardinality(activeUploadsSet[b]) > 0
       THEN LET s == startNewUploads(fileQueue[b], activeUploadsSet[b]) IN
            /\ uploads' = markAllUploading(uploads, s.started)
            /\ fileQueue' = [fileQueue EXCEPT ![b] = s.rest]
            /\ activeUploadsSet' = [activeUploadsSet EXCEPT ![b] = s.active]
            /\ transfers' = addTransfers(transfers, s.started, b)
            /\ attempts' = addAttempts(attempts, s.started)
            /\ UNCHANGED <<isUploading, loop>>
       ELSE /\ isUploading' = FALSE
            /\ loop' = [loop EXCEPT ![b] = "done"]
            /\ UNCHANGED <<uploads, fileQueue, activeUploadsSet, transfers, attempts>>
    /\ UNCHANGED <<uploadsView, batches, retries>>
    /\ UNCHANGED <<events, submitted>>
    /\ macrotask
    /\ UNCHANGED <<stored, cancelled, cleared>>
    /\ UNCHANGED imageType
    /\ UNCHANGED umVars
    /\ UNCHANGED otherVars

\* the progress interval of a running uploadSingleFile call fires
progressInterval(id) ==
    /\ events' = events + 1
    /\ \E o \in Owners : transfers[<<id, o>>] > 0
    /\ uploads' = bumpProgress(uploads, id)
    /\ UNCHANGED <<uploadsView, isUploading, batches, fileQueue, activeUploadsSet, loop,
                   transfers, attempts, retries>>
    /\ UNCHANGED submitted
    /\ macrotask
    /\ UNCHANGED <<stored, cancelled, cleared>>
    /\ UNCHANGED imageType
    /\ UNCHANGED umVars
    /\ UNCHANGED otherVars

\* the API call of an uploadSingleFile call returns: the route ran under
\* cond and, if it got that far, its PutObject send resolved (putOk) or
\* threw. The finally block deletes the id from the set it was given.
uploadSettles(id, o, cond, putOk) ==
    /\ transfers[<<id, o>>] > 0
    /\ transfers' = [transfers EXCEPT ![<<id, o>>] = @ - 1]
    /\ LET put == cond = "ok" /\ fileIsImage(id) /\ putOk
           response == uploadPropertyImages(POST(cond, fileIsImage(id), putOk, stored + 1))
       IN /\ stored' = IF put THEN stored + 1 ELSE stored
          /\ uploads' = IF response.success /\ response.hasUrls
                        THEN markCompleted(uploads, id, firstUrl(response.urls))
                        ELSE markError(uploads, id, errorText(response))
    /\ activeUploadsSet' = [b \in BatchIds |->
                               IF b = o THEN activeUploadsSet[b] \ {id} ELSE activeUploadsSet[b]]
    /\ UNCHANGED <<uploadsView, isUploading, batches, fileQueue, loop, attempts, retries>>
    /\ UNCHANGED <<events, submitted, cancelled, cleared>>
    /\ macrotask
    /\ UNCHANGED imageType
    /\ UNCHANGED umVars
    /\ UNCHANGED otherVars

\* the route answers with success (the object was put, or the put threw)
uploadCompletes(id, o) == \E putOk \in BOOLEAN : uploadSettles(id, o, "ok", putOk)
\* the request fails
uploadErrors(id, o) == \E cond \in RequestConds \ {"ok"} : uploadSettles(id, o, cond, TRUE)

\* faulty variant: the filter keeps the upload it should drop
filterOnly(prev, uploadId) == SelectSeq(prev, LAMBDA u : u.id = uploadId)

\* prev.filter(upload => upload.id !== uploadId)
filterOut(prev, uploadId) == SelectSeq(prev, LAMBDA u : u.id # uploadId)

\* removeUpload(uploadId)
removeUpload(id) ==
    /\ uploads' = filterOut(uploads, id)
    /\ cancelled' = IF \E u \in findUpload(uploads, id) : u.status = "queued"
                    THEN cancelled \cup {id} ELSE cancelled
    /\ UNCHANGED cleared
    /\ UNCHANGED stored
    /\ UNCHANGED <<uploadsView, isUploading, batches, fileQueue, activeUploadsSet, loop,
                   transfers, attempts, retries>>
    /\ events' = events + 1
    /\ UNCHANGED submitted
    /\ macrotask
    /\ UNCHANGED imageType
    /\ UNCHANGED umVars
    /\ UNCHANGED otherVars

\* the guard of retryUpload, evaluated on the uploads of the last render
retryAccepted(id) ==
    \E u \in findUpload(uploadsView, id) : u.status = "error"

\* retryUpload(uploadId)
retryUpload(id) ==
    /\ IF retryAccepted(id)
       THEN /\ events' = events + 1
            /\ uploads' = markUploading(markQueued(uploads, id), id)
            /\ transfers' = addTransfers(transfers, <<id>>, 0)
            /\ attempts' = addAttempts(attempts, <<id>>)
            /\ retries' = [retries EXCEPT ![id] = @ + 1]
       ELSE UNCHANGED <<uploads, transfers, attempts, retries, events>>
    /\ UNCHANGED <<uploadsView, isUploading, batches, fileQueue, activeUploadsSet, loop>>
    /\ UNCHANGED submitted
    /\ macrotask
    /\ UNCHANGED <<stored, cancelled, cleared>>
    /\ UNCHANGED imageType
    /\ UNCHANGED umVars
    /\ UNCHANGED otherVars

\* files still waiting in the fileQueue of some uploadFiles call
Waiting == UNION {Range(fileQueue[b]) : b \in BatchIds}

\* clearUploads()
clearUploads ==
    /\ events' = events + 1
    /\ uploads' = <<>>
    /\ isUploading' = FALSE
    /\ UNCHANGED <<uploadsView, batches, fileQueue, activeUploadsSet, loop,
                   transfers, attempts, retries>>
    /\ UNCHANGED submitted
    /\ macrotask
    /\ UNCHANGED <<stored, cancelled>>
    /\ cleared' = cleared \cup Waiting
    /\ UNCHANGED imageType
    /\ UNCHANGED umVars
    /\ UNCHANGED otherVars

\* React renders the component: the callbacks now close over the new uploads
render ==
    /\ stale > 0
    /\ uploadsView' = uploads
    /\ UNCHANGED <<uploads, isUploading, batches, fileQueue, activeUploadsSet, loop,
                   transfers, attempts, retries>>
    /\ stale' = 0
    /\ UNCHANGED <<events, submitted>>
    /\ UNCHANGED <<stored, cancelled, cleared>>
    /\ UNCHANGED imageType
    /\ UNCHANGED umVars
    /\ UNCHANGED otherVars

\* the hook driven by the post page; at most MaxEvents caller and timer
\* events are followed, and React renders before more than MaxStale
\* macrotasks have changed uploads
NextHook ==
    \/ stale < MaxStale /\ events < MaxEvents
           /\ \E files \in FileBatches : uploadFiles(files)
    \/ stale < MaxStale /\ \E b \in BatchIds : processQueueWakes(b)
    \/ stale < MaxStale /\ events < MaxEvents
           /\ \E id \in FileIds : progressInterval(id)
    \/ stale < MaxStale /\ \E id \in FileIds, o \in Owners : uploadCompletes(id, o)
    \/ stale < MaxStale /\ \E id \in FileIds, o \in Owners : uploadErrors(id, o)
    \/ stale < MaxStale /\ events < MaxEvents
           /\ \E id \in FileIds : removeUpload(id)
    \/ stale < MaxStale /\ \E id \in FileIds : retryUpload(id) /\ events' <= MaxEvents
    \/ stale < MaxStale /\ events < MaxEvents /\ clearUploads
    \/ render

NextUM ==
    \/ \E k \in 0..MaxAdd : addToQueue(k)
    \/ \E id \in TaskIds : uploadSucceeds(id)
    \/ \E id \in TaskIds : uploadFails(id)
    \/ clearQueue
    \/ \E id \in TaskIds : removeFromQueue(id)

\* the UploadManager, constructed with any configuration; the hook unused
InitManager == InitUM /\ InitHook

SpecManager == InitManager /\ [][NextUM]_vars

\* the UploadManager together with the progress interval callbacks of its
\* uploads
NextCallbacks ==
    \/ \E k \in 0..MaxAdd : addToQueue(k) /\ nextTaskId' <= MaxObserved
    \/ \E id \in TaskIds : uploadSucceeds(id)
    \/ \E id \in TaskIds : uploadFails(id)
    \/ \E id \in TaskIds : progressReports(id)
    \/ clearQueue
    \/ \E id \in TaskIds : removeFromQueue(id)

SpecCallbacks == InitManager /\ [][NextCallbacks]_vars

\* faulty variant: the lower end of the range is not enforced
updateLimitNoFloor(max, cfg) ==
    IF cfg = {} THEN max ELSE Min(MaxLimit, CHOOSE n \in cfg : TRUE)

\* if (config.maxConcurrent !== undefined)
\*     this.maxConcurrent = Math.max(1, Math.min(10, config.maxConcurrent))
updateLimit(max, cfg) ==
    IF cfg = {} THEN max ELSE clampLimit(CHOOSE n \in cfg : TRUE)

\* updateConfig(config): the limit is replaced; the queue is not processed
updateConfig(cfg) ==
    /\ maxConcurrent' = updateLimit(maxConcurrent, cfg)
    /\ UNCHANGED <<queue, activeUploads, nextTaskId, task, admitted, released,
                   returned, calls, ticks>>
    /\ UNCHANGED env
    /\ UNCHANGED hookVars
    /\ UNCHANGED otherVars

\* the UploadManager with updateConfig calls at any time
NextConfig ==
    \/ \E k \in 0..MaxAdd : addToQueue(k) /\ nextTaskId' <= MaxObserved
    \/ \E id \in TaskIds : uploadSucceeds(id)
    \/ \E id \in TaskIds : uploadFails(id)
    \/ clearQueue
    \/ \E id \in TaskIds : removeFromQueue(id)
    \/ \E cfg \in ConfigInputs : updateConfig(cfg)

SpecConfig == InitManager /\ [][NextConfig]_vars

\* new UploadManager(config) with any of the settings missing; nothing can
\* be called on the object when the constructor threw
InitConstruct ==
    /\ env \in SUBSET Settings
    /\ InitFields
    /\ InitHook

NextConstruct ==
    \/ ~constructorThrows(env)
           /\ \E k \in 0..MaxAdd : addToQueue(k) /\ nextTaskId' <= MaxObserved
    \/ ~constructorThrows(env) /\ \E id \in TaskIds : uploadSucceeds(id)
    \/ ~constructorThrows(env) /\ \E id \in TaskIds : uploadFails(id)
    \/ ~constructorThrows(env) /\ clearQueue
    \/ ~constructorThrows(env) /\ \E id \in TaskIds : removeFromQueue(id)

SpecConstruct == InitConstruct /\ [][NextConstruct]_vars

\* every started transfer eventually finishes
LiveSpecManager ==
    SpecManager /\ \A id \in TaskIds : WF_vars(uploadSucceeds(id) \/ uploadFails(id))

\* the module's singleton new UploadManager(), unused
InitSingleton ==
    /\ env = Settings
    /\ queue = <<>>
    /\ activeUploads = {}
    /\ maxConcurrent = constructorLimit({})
    /\ nextTaskId = 0
    /\ task = [i \in TaskIds |-> "none"]
    /\ admitted = <<>>
    /\ released = [i \in TaskIds |-> 0]
    /\ returned = "none"
    /\ calls = [i \in TaskIds |-> <<>>]
    /\ ticks = 0

\* the hook; the module's singleton new UploadManager() is unused
InitHookOnly == InitHook /\ InitSingleton

SpecHook == InitHookOnly /\ [][NextHook]_vars

\* uploadSingleFile calls that have ended
Settled ==
    Cardinality(UNION {{id} \X (1..attempts[id]) : id \in FileIds})
        - Cardinality(UNION {{x} \X (1..transfers[x]) : x \in FileIds \X Owners})

\* caller events, timer events and transfer outcomes so far
Followed == events + Settled

\* the hook with a single uploadFiles call
NextCancel ==
    \/ stale < MaxStale /\ \E files \in FileBatches : uploadFiles(files) /\ batches = 0
    \/ stale < MaxStale /\ \E b \in BatchIds : processQueueWakes(b)
    \/ stale < MaxStale /\ Followed < MaxFollowed /\ events < MaxEvents
           /\ \E id \in FileIds : progressInterval(id)
    \/ stale < MaxStale /\ Followed < MaxFollowed
           /\ \E id \in FileIds, o \in Owners : uploadCompletes(id, o)
    \/ stale < MaxStale /\ Followed < MaxFollowed
           /\ \E id \in FileIds, o \in Owners : uploadErrors(id, o)
    \/ stale < MaxStale /\ Followed < MaxFollowed /\ events < MaxEvents
           /\ \E id \in FileIds : removeUpload(id)
    \/ stale < MaxStale
           /\ \E id \in FileIds : retryUpload(id)
           /\ ((Followed < MaxFollowed /\ events < MaxEvents) \/ events' = events)
    \/ stale < MaxStale /\ Followed < MaxFollowed /\ events < MaxEvents /\ clearUploads
    \/ render

SpecCancel == InitHookOnly /\ [][NextCancel]_vars

\* the hook has not been used: no uploadFiles call and no other event
HookUnused == batches = 0 /\ events = 0

\* the module's singleton new UploadManager() has not been used
ManagerUnused ==
    nextTaskId = 0 /\ returned = "none" /\ maxConcurrent = constructorLimit({})

\* the two components are independent (the hook does not call the
\* UploadManager): a run uses either an UploadManager constructed with any
\* configuration, or the hook with a single uploadFiles call. The progress
\* interval of the hook, which changes nothing but the progress field of a
\* record, is not followed here.
NextComponents ==
    \/ HookUnused /\ \E k \in 0..MaxAdd : addToQueue(k) /\ nextTaskId' <= MaxObserved
    \/ HookUnused /\ \E id \in TaskIds : uploadSucceeds(id)
    \/ HookUnused /\ \E id \in TaskIds : uploadFails(id)
    \/ HookUnused /\ clearQueue
    \/ HookUnused /\ \E id \in TaskIds : removeFromQueue(id)
    \/ ManagerUnused /\ stale < MaxStale
           /\ \E files \in FileBatches : uploadFiles(files) /\ batches = 0
    \/ ManagerUnused /\ stale < MaxStale /\ \E b \in BatchIds : processQueueWakes(b)
    \/ ManagerUnused /\ stale < MaxStale /\ Followed < MaxFollowed
           /\ \E id \in FileIds, o \in Owners : uploadCompletes(id, o)
    \/ ManagerUnused /\ stale < MaxStale /\ Followed < MaxFollowed
           /\ \E id \in FileIds, o \in Owners : uploadErrors(id, o)
    \/ ManagerUnused /\ stale < MaxStale /\ Followed < MaxFollowed /\ events < MaxEvents
           /\ \E id \in FileIds : removeUpload(id)
    \/ ManagerUnused /\ stale < MaxStale
           /\ \E id \in FileIds : retryUpload(id)
           /\ ((Followed < MaxFollowed /\ events < MaxEvents) \/ events' = events)
    \/ ManagerUnused /\ stale < MaxStale /\ Followed < MaxFollowed /\ events < MaxEvents
           /\ clearUploads
    \/ ManagerUnused /\ render

SpecComponents == InitManager /\ [][NextComponents]_vars

\* a caller that hands the hook one file, of any type
OneFileTypes == {t \in [FileIds -> BOOLEAN] : \A i \in FileIds \ {1} : t[i]}

InitOneFile ==
    /\ imageType \in OneFileTypes
    /\ InitUploads
    /\ InitSingleton

\* the hook with one uploadFiles call for one file; at most MaxCalls
\* caller and timer events are followed, and React renders before more
\* than MaxPending macrotasks have changed uploads
NextOneFile ==
    \/ stale < MaxPending
           /\ \E files \in FileBatches : uploadFiles(files) /\ batches = 0 /\ Len(files) = 1
    \/ stale < MaxPending /\ \E b \in BatchIds : processQueueWakes(b)
    \/ stale < MaxPending /\ events < MaxCalls
           /\ \E id \in FileIds : progressInterval(id)
    \/ stale < MaxPending /\ \E id \in FileIds, o \in Owners : uploadCompletes(id, o)
    \/ stale < MaxPending /\ \E id \in FileIds, o \in Owners : uploadErrors(id, o)
    \/ stale < MaxPending /\ events < MaxCalls
           /\ \E id \in FileIds : removeUpload(id)
    \/ stale < MaxPending /\ \E id \in FileIds : retryUpload(id) /\ events' <= MaxCalls
    \/ stale < MaxPending /\ events < MaxCalls /\ clearUploads
    \/ render

SpecOneFile == InitOneFile /\ [][NextOneFile]_vars

(***************************************************************************)
(* Properties of the UploadManager                                         *)
(***************************************************************************)

Finished(id) == task[id] \in {"ok", "err"}

\* the task left the queue without being started
Dropped(id) == task[id] \in {"removed", "cleared"}

\* task ids are issued in the order of the pushes, so every task with a
\* smaller id than a task dropped by clearQueue was submitted before that
\* call
BeforeClear(id) == \E c \in TaskIds : task[c] = "cleared" /\ id <= c

\* C1: with the limit fixed at construction, the number of tasks in active
\* transfer (activeUploads.size) never exceeds maxConcurrent, whatever the
\* interleaving of addToQueue, removeFromQueue, clearQueue and transfer
\* successes and failures.
C1_ActiveWithinLimit == Cardinality(activeUploads) <= maxConcurrent

\* the limit is reached with tasks waiting, after an earlier transfer ended
C1_Witness ==
    /\ Cardinality(activeUploads) = maxConcurrent
    /\ queue # <<>>
    /\ \E id \in TaskIds : Finished(id)

\* C3: every admitted task is deleted from activeUploads exactly once, on
\* success and on failure alike: a finished task has been released once, an
\* unfinished one never, activeUploads holds exactly the tasks whose
\* transfer is running, and it is empty once the queue is empty and no
\* transfer is running.
C3_SlotConservation ==
    /\ \A id \in TaskIds : released[id] = (IF Finished(id) THEN 1 ELSE 0)
    /\ \A id \in TaskIds : Cardinality({i \in 1..Len(admitted) : admitted[i] = id}) <= 1
    /\ \A id \in TaskIds : Finished(id) => id \in Range(admitted)
    /\ activeUploads = {id \in TaskIds : task[id] = "active"}
    /\ (queue = <<>> /\ \A id \in TaskIds : task[id] # "active") => Cardinality(activeUploads) = 0

\* the manager is quiescent after a success and a failure
C3_Witness ==
    /\ queue = <<>>
    /\ activeUploads = {}
    /\ \E a, b \in TaskIds : task[a] = "err" /\ task[b] = "ok"

\* C4: if every started transfer eventually finishes, every task that is
\* waiting in the queue is eventually finished (or was removed by
\* removeFromQueue/clearQueue), whichever other tasks fail, and a busy
\* manager eventually reaches "queue empty and no task active".
C4_EveryTaskFinishes ==
    /\ \A id \in TaskIds : (task[id] = "queued") ~> (Finished(id) \/ Dropped(id))
    /\ (queue # <<>> \/ activeUploads # {}) ~> (queue = <<>> /\ activeUploads = {})

\* with one slot, a task queued behind a task that failed has succeeded
C4_Witness ==
    /\ maxConcurrent = 1
    /\ queue = <<>> /\ activeUploads = {}
    /\ \E a, b \in TaskIds : a < b /\ task[a] = "err" /\ task[b] = "ok"

\* C5: admission is FIFO. Task ids are issued in the order of the pushes,
\* so a < b means a was appended before b. Whenever b has been admitted,
\* every task a appended before b that was not removed was admitted
\* before b.
C5_FifoAdmission ==
    \A j \in 1..Len(admitted) : \A a \in TaskIds :
        (a < admitted[j] /\ ~Dropped(a))
            => \E i \in 1..(j - 1) : admitted[i] = a

\* a task that had to wait in the queue was admitted after the tasks
\* appended before it, some of them by an earlier addToQueue call
C5_Witness ==
    /\ Len(admitted) >= 3
    /\ maxConcurrent = 2
    /\ \E id \in TaskIds : Dropped(id)
    /\ Finished(admitted[1])

\* C16: removeFromQueue(id) for a task that is waiting in the queue removes
\* exactly that task and returns true; the order of the remaining queued
\* tasks and the set of active tasks are unchanged; the transfer of a
\* removed task is never started and none of its callbacks is ever invoked.
C16_RemoveQueuedTask ==
    /\ [][\A id \in TaskIds :
             (removeFromQueue(id) /\ id \in Range(queue))
                 => /\ queue' = SelectSeq(queue, LAMBDA x : x # id)
                    /\ Len(queue') = Len(queue) - 1
                    /\ returned' = "true"
                    /\ activeUploads' = activeUploads]_vars
    /\ [](\A id \in TaskIds :
             Dropped(id) => (id \notin Range(admitted) /\ calls[id] = <<>>))

\* a task was removed from the middle of the queue by removeFromQueue, and
\* a task pushed after it has been admitted since
C16_Witness ==
    /\ returned = "true"
    /\ \E r \in TaskIds :
          /\ task[r] = "removed"
          /\ \E a \in Range(admitted) : a > r /\ Finished(a)
          /\ \E b \in Range(admitted) : b < r

\* C18: removeFromQueue(id) for an id that is unknown, or whose task is
\* already active or finished (any id that is not in the queue), returns
\* false and leaves the queue and the active set unchanged.
C18_RemoveUnknownTask ==
    [][\A id \in TaskIds :
          (removeFromQueue(id) /\ id \notin Range(queue))
              => (returned' = "false" /\ queue' = queue /\ activeUploads' = activeUploads)]_vars

\* a removeFromQueue call returned false while tasks were waiting, active
\* and finished, and ids were still unissued
C18_Witness ==
    /\ returned = "false"
    /\ queue # <<>>
    /\ activeUploads # {}
    /\ nextTaskId < MaxTasks
    /\ \E id \in TaskIds : Finished(id)

\* C20 as stated: after clearQueue() no callback (onProgress, onComplete,
\* onError) of a task submitted before the call is invoked any more.
C20_NothingReportedAfterClear ==
    [][\A id \in TaskIds : BeforeClear(id) => calls'[id] = calls[id]]_vars

(***************************************************************************)
(* Properties of the hook                                                  *)
(***************************************************************************)

\* uploadSingleFile calls of file id that have started and not finished
InFlight(id) == sumOver([o \in Owners |-> transfers[<<id, o>>]], Owners)

TotalInFlight == sumOver([id \in FileIds |-> InFlight(id)], FileIds)

Uploading == {i \in 1..Len(uploads) : uploads[i].status = "uploading"}

CurrentStatusIsError(id) == \E u \in findUpload(uploads, id) : u.status = "error"

\* C2: batches submitted with uploadFiles share one concurrency budget:
\* without any retry, at most 3 uploadSingleFile calls are in flight at any
\* instant, counted over all batches.
C2_BatchesShareBudget ==
    SumRetries = 0 => TotalInFlight <= maxConcurrentUploads

\* C6: retryUpload(id) for a task whose current status is not error, or
\* for an id that is not tracked, changes no task's state and starts no
\* transfer.
C6_RetryOnlyWhenFailed ==
    [][\A id \in FileIds :
          (retryUpload(id) /\ ~CurrentStatusIsError(id))
              => (uploads' = uploads /\ transfers' = transfers /\ attempts' = attempts)]_vars

\* C7: with one uploadFiles call and any retryUpload calls, there are never
\* two transfers in flight at the same time for the same task id.
C7_OneTransferPerTask ==
    batches <= 1 => \A id \in FileIds : InFlight(id) <= 1

\* C8: an accepted retryUpload(id) leaves the task with the same id,
\* status queued, progress 0 and no error immediately after the call.
C8_RetryLeavesQueued ==
    [][\A id \in FileIds :
          (retryUpload(id) /\ retryAccepted(id))
              => \E u \in findUpload(uploads', id) :
                    u.status = "queued" /\ u.progress = 0 /\ u.error = Undefined]_vars

\* C9: a retried task goes to the tail of the backlog: when retryUpload(id)
\* is accepted while other files are still waiting to start, the transfer
\* of id is not started ahead of them by that call.
C9_RetryGoesToTail ==
    [][\A id \in FileIds :
          (retryUpload(id) /\ retryAccepted(id) /\ Waiting \ {id} # {})
              => attempts'[id] = attempts[id]]_vars

\* C10: with one uploadFiles call and any number of retryUpload calls, the
\* number of transfers in flight, counted as the tasks with status
\* uploading, never exceeds 3.
C10_CapHoldsWithRetry ==
    batches <= 1 => Cardinality(Uploading) <= maxConcurrentUploads

\* C11: whenever the blob-store upload of a submitted file fails (the
\* PutObject send of the route throws), the task of that file, if it is
\* still tracked, ends with status error and a non-empty error text, not
\* with status completed.
C11_FailedPutEndsInError ==
    [][\A id \in FileIds, o \in Owners :
          uploadSettles(id, o, "ok", FALSE)
              => \A u \in findUpload(uploads', id) :
                    u.status = "error" /\ u.error # Undefined]_vars

\* C12: in every reachable state a task with status completed has
\* progress 100 and a defined url.
C12_CompletedHasUrl ==
    \A i \in 1..Len(uploads) :
        uploads[i].status = "completed"
            => (uploads[i].progress = FullProgress /\ uploads[i].url # NoUrl)

\* C13: a task with status queued or uploading has neither url nor error
\* set; url is set only while the status is completed and error only while
\* the status is error.
C13_FieldsMatchStatus ==
    \A i \in 1..Len(uploads) :
        /\ uploads[i].status \in {"queued", "uploading"}
               => (uploads[i].url = NoUrl /\ uploads[i].error = Undefined)
        /\ uploads[i].url # NoUrl => uploads[i].status = "completed"
        /\ uploads[i].error # Undefined => uploads[i].status = "error"

\* C14: every status change of a tracked task is one of queued ->
\* uploading, uploading -> completed, uploading -> error, or error ->
\* queued, the last one only as the effect of a retryUpload call (whose
\* own start of the transfer, queued -> uploading, falls into the same
\* step); in particular a task never leaves completed. Steps of uploadFiles
\* replace the tasks and are not counted as changes of a task.
C14_StatusTransitions ==
    [][batches' = batches =>
          \A id \in FileIds :
              \A u \in findUpload(uploads, id) : \A v \in findUpload(uploads', id) :
                  \/ v.status = u.status
                  \/ <<u.status, v.status>> \in {<<"queued", "uploading">>,
                                                 <<"uploading", "completed">>,
                                                 <<"uploading", "error">>}
                  \/ /\ <<u.status, v.status>> \in {<<"error", "queued">>,
                                                    <<"error", "uploading">>}
                     /\ retryUpload(id)]_vars

\* C15: once a task is completed, its url does not change as long as the
\* task is tracked, unless a retryUpload of that task is accepted: no
\* outcome of a transfer rewrites it. Steps of uploadFiles replace the
\* tasks and are not counted.
C15_CompletedUrlStable ==
    [][batches' = batches =>
          \A id \in FileIds :
              \A u \in findUpload(uploads, id) : \A v \in findUpload(uploads', id) :
                  (u.status = "completed" /\ ~(retryUpload(id) /\ retryAccepted(id)))
                      => v.url = u.url]_vars

\* C17: after removeUpload(id) was called for a task that was still queued,
\* no uploadSingleFile call is started for that file.
C17_CancelledNeverTransferred ==
    [][\A id \in cancelled : attempts'[id] = attempts[id]]_vars

TrackedIds(ups) == {ups[i].id : i \in 1..Len(ups)}

\* C21: a task tracked in uploads leaves it only in a removeUpload call for
\* that task or in a clearUploads call; in particular a further uploadFiles
\* call keeps the tasks of the earlier batches.
C21_TrackedUntilRemovedOrCleared ==
    [][\A id \in TrackedIds(uploads) \ TrackedIds(uploads') :
           removeUpload(id) \/ clearUploads]_vars

\* the ids returned by the uploadFiles calls made so far: each of their
\* files either waits in a fileQueue or has had an uploadSingleFile call
IssuedIds == Waiting \cup {id \in FileIds : attempts[id] > 0}

\* C22: an uploadFiles call with K files returns K ids in file order, one
\* per task it creates, pairwise distinct and distinct from every id
\* returned by an earlier uploadFiles call.
C22_FreshIdsPerSubmission ==
    [][\A files \in FileBatches :
           uploadFiles(files)
               => LET ids == uploadIds(files) IN
                  /\ Len(ids) = Len(files)
                  /\ Len(uploads') = Len(files)
                  /\ \A i \in 1..Len(ids) : uploads'[i].id = ids[i]
                  /\ \A i, j \in 1..Len(ids) : ids[i] = ids[j] => i = j
                  /\ Range(ids) \cap IssuedIds = {}]_vars

\* C28: a batch submitted to an idle UploadManager with limit N has its
\* first N files admitted at once and the others queued in file order
\* (N = 3, 5 files: 1-3 admitted, 4-5 queued); every single completion
\* while tasks wait admits exactly the head of the queue in the freed slot
\* and leaves the rest queued in order (file 2 ends: 4 admitted, 5 queued).
C28_CompletionAdmitsHead ==
    /\ [][\A k \in 0..MaxAdd :
              (addToQueue(k) /\ queue = <<>> /\ activeUploads = {})
                  => LET ids == taskIds(nextTaskId, k)
                         n == Min(k, maxConcurrent)
                     IN /\ admitted' = admitted \o SubSeq(ids, 1, n)
                        /\ activeUploads' = Range(SubSeq(ids, 1, n))
                        /\ queue' = SubSeq(ids, n + 1, k)
                        /\ \A i \in Range(queue') : task'[i] = "queued"]_vars
    /\ [][\A id \in TaskIds :
              ((uploadSucceeds(id) \/ uploadFails(id)) /\ queue # <<>>)
                  => /\ admitted' = Append(admitted, Head(queue))
                     /\ activeUploads' = (activeUploads \ {id}) \cup {Head(queue)}
                     /\ task'[Head(queue)] = "active"
                     /\ queue' = Tail(queue)
                     /\ \A i \in Range(queue') : task'[i] = "queued"]_vars

\* limit 3, five tasks: the second has ended, the fourth took its slot and
\* the fifth still waits
C28_Witness ==
    /\ maxConcurrent = 3
    /\ admitted = <<1, 2, 3, 4>>
    /\ Finished(2)
    /\ activeUploads = {1, 3, 4}
    /\ queue = <<5>>

\* C25: the constructor throws when any of the four settings of the blob
\* store is missing, so no task is ever submitted to such a manager; it
\* succeeds when all four are set.
C25_MissingSettingIsFatal ==
    /\ env = Settings => ~constructorThrows(env)
    /\ env # Settings => constructorThrows(env) /\ nextTaskId = 0

\* C24: a file whose declared type is not an image type is rejected by
\* uploadFiles before a task is created: it is never tracked in uploads,
\* never waits in a fileQueue and no transfer is ever started for it.
C24_NonImageRejected ==
    \A id \in FileIds :
        ~imageType[id]
            => /\ id \notin TrackedIds(uploads)
               /\ id \notin Waiting
               /\ attempts[id] = 0

\* C27: once RetryLimit retries of a task have been made, a further
\* retryUpload call for it, made when it has failed again, starts no
\* transfer.
C27_AtMostThreeRetries ==
    [][\A id \in FileIds :
           (retryUpload(id) /\ CurrentStatusIsError(id) /\ retries[id] >= RetryLimit)
               => /\ attempts' = attempts
                  /\ transfers' = transfers]_vars

\* C29: the progress of every task is an integer in 0..100, is 0 when the
\* status is queued and 100 when it is completed, and does not decrease
\* from one state to the next while the status stays uploading.
C29_ProgressOfStatus ==
    /\ [](\A i \in 1..Len(uploads) :
              /\ uploads[i].progress \in 0..FullProgress
              /\ uploads[i].status = "queued" => uploads[i].progress = 0
              /\ uploads[i].status = "completed" => uploads[i].progress = FullProgress)
    /\ [][\A id \in FileIds :
              \A u \in findUpload(uploads, id) : \A v \in findUpload(uploads', id) :
                  (batches' = batches /\ u.status = "uploading" /\ v.status = "uploading")
                      => v.progress >= u.progress]_vars

\* C30: with a single uploadFiles call and every transfer finishing, the
\* processQueue loop of the batch eventually exits and sets isUploading to
\* false, and when it does every task of the batch is completed or error.
C30_LoopExitMeansBatchDone ==
    [][\A b \in BatchIds :
           (batches = 1 /\ loop[b] = "sleeping" /\ loop'[b] = "done")
               => /\ isUploading' = FALSE
                  /\ \A i \in 1..Len(uploads') :
                         uploads'[i].status \in {"completed", "error"}]_vars

\* C23: a submission returns the task ids while every transfer of the
\* batch is still pending. When addToQueue returns, each task of the batch
\* is queued or active and none of its callbacks has run; when uploadFiles
\* returns, each file of the batch waits in fileQueue or has its
\* uploadSingleFile call awaiting the API, and no transfer has ended during
\* the call. This holds for every batch size.
C23_SubmissionReturnsAtOnce ==
    /\ [][\A k \in 0..MaxAdd :
              (nextTaskId' = nextTaskId + k /\ addToQueue(k))
                  => \A i \in Range(taskIds(nextTaskId, k)) :
                         /\ task'[i] \in {"queued", "active"}
                         /\ calls'[i] = <<>>]_vars
    /\ [][\A files \in FileBatches :
              (batches' # batches /\ uploadFiles(files))
                  => /\ \A i \in 1..Len(files) :
                            LET id == uploadIds(files)[i] IN
                            /\ uploads'[i].status \in {"queued", "uploading"}
                            /\ \/ id \in Range(fileQueue'[batches'])
                               \/ transfers'[<<id, batches'>>] = transfers[<<id, batches'>>] + 1
                     /\ \A x \in DOMAIN transfers : transfers'[x] >= transfers[x]]_vars

\* uploadFiles has returned for a batch larger than the limit: three
\* transfers are pending, a file waits and no transfer has ended
C23_Witness ==
    /\ batches = 1
    /\ Len(uploads) > maxConcurrentUploads
    /\ TotalInFlight = maxConcurrentUploads
    /\ Waiting # {}
    /\ Settled = 0
    /\ loop[1] = "sleeping"

\* ids of the files passed to the uploadFiles calls so far
SubmittedIds == 1..submitted

\* UploadManager: the upload of a task has been started once if the task
\* was admitted, and never otherwise
StartedOnce ==
    \A id \in TaskIds :
        Cardinality({i \in 1..Len(admitted) : admitted[i] = id})
            = IF task[id] \in {"active", "ok", "err"} THEN 1 ELSE 0

\* hook, for the batch of an uploadFiles call: the uploadSingleFile calls
\* made for a task are one for its admission and one per accepted
\* retryUpload call
AttemptsAccounted ==
    batches <= 1 =>
        \A id \in FileIds :
            attempts[id] = retries[id] + (IF id \in SubmittedIds \ Waiting THEN 1 ELSE 0)

\* C26: no transfer is started for a task other than by its admission and
\* by accepted retryUpload calls. UploadManager: in every state a task has
\* been started exactly once if admitted, and a failed task stays failed.
\* Hook, for the batch of an uploadFiles call: in every state the number
\* of uploadSingleFile calls for a task is 1 once it is admitted plus the
\* number of accepted retryUpload calls, and a step in which a transfer
\* ends starts none.
C26_NoAutomaticRetry ==
    /\ StartedOnce /\ AttemptsAccounted
    /\ [][StartedOnce' /\ AttemptsAccounted']_vars
    /\ [][\A id \in TaskIds : task[id] = "err" => task'[id] = "err"]_vars
    /\ [][(\E x \in DOMAIN transfers : transfers'[x] < transfers[x])
              => /\ attempts' = attempts
                 /\ \A x \in DOMAIN transfers : transfers'[x] <= transfers[x]]_vars

\* a task of the hook failed, was retried once by the caller and failed
\* again: two transfers were started for it and none is running
C26_Witness ==
    \E id \in FileIds :
        /\ retries[id] = 1
        /\ attempts[id] = 2
        /\ InFlight(id) = 0
        /\ CurrentStatusIsError(id)
        /\ stored = 0

\* C34: the callbacks of a task are onProgress calls followed by exactly
\* one terminal callback (onComplete or onError) once the upload has ended:
\* nothing, and in particular no onProgress, is delivered after the
\* terminal callback.
C34_TerminalCallbackIsLast ==
    \A id \in TaskIds :
        /\ \A i \in 1..Len(calls[id]) :
               calls[id][i] \in {"onComplete", "onError"} => i = Len(calls[id])
        /\ Finished(id) =>
               Cardinality({i \in 1..Len(calls[id]) :
                               calls[id][i] \in {"onComplete", "onError"}}) = 1

\* C38: whenever an uploadSingleFile call is awaiting the API or a
\* submitted file still waits in a fileQueue, isUploading is true.
C38_BusyFlagAccurate ==
    ((\E x \in DOMAIN transfers : transfers[x] > 0) \/ Waiting # {}) => isUploading

\* C39: for a file that was waiting in a fileQueue when clearUploads was
\* called, no uploadSingleFile call is started afterwards.
C39_ClearStopsBacklog ==
    [][\A id \in cleared : attempts'[id] = attempts[id]]_vars

\* the value of config.maxConcurrent limited to the range 1..10
Clamped(n) == IF n < 1 THEN 1 ELSE IF n > 10 THEN 10 ELSE n

\* C37: maxConcurrent is 3 when no limit is configured; with a configured
\* integer it is that value limited to 1..10, after construction and after
\* every updateConfig call, so it is an integer in 1..10 in every state.
C37_LimitClamped ==
    /\ constructorLimit({}) = 3
    /\ \A cfg \in ConfigInputs \ {{}} : \A n \in cfg : constructorLimit(cfg) = Clamped(n)
    /\ maxConcurrent \in 1..10
    /\ [][maxConcurrent' \in 1..10]_vars
    /\ [][\A cfg \in ConfigInputs :
              (maxConcurrent' # maxConcurrent /\ updateConfig(cfg))
                  => \A n \in cfg : maxConcurrent' = Clamped(n)]_vars

\* updateConfig lowered the limit to its floor while more uploads than
\* that were active
C37_Witness ==
    /\ maxConcurrent = 1
    /\ Cardinality(activeUploads) > 1

\* C35: at the end of every UploadManager call, updateConfig included, the
\* queue is empty or all maxConcurrent slots are taken.
C35_WorkConserving ==
    queue = <<>> \/ Cardinality(activeUploads) >= maxConcurrent

\* C36: after updateConfig the number of active uploads is at most the
\* limit in force, also when the new limit is below the number of uploads
\* active at the call.
C36_ActiveWithinNewLimit ==
    [][\A cfg \in ConfigInputs :
           updateConfig(cfg) => Cardinality(activeUploads') <= maxConcurrent']_vars

(***************************************************************************)
(* Part III: the post page                                                 *)
(***************************************************************************)

\* 10 * 1024 * 1024
TenMB == 10 * 1024 * 1024

\* file.type of the files a user drops: <<t, s>> is the string "t/s"
FileTypes == {<<"image", "jpeg">>, <<"image", "png">>, <<"image", "webp">>,
              <<"image", "gif">>, <<"application", "pdf">>}

\* file.size of the files a user drops
FileSizes == {TenMB, TenMB + 1}

\* the File objects a user drops
DropFiles == [type : FileTypes, size : FileSizes]

\* the dropFiles arrays handed to handleDropZoneDrop
DropInputs == {<<f>> : f \in DropFiles} \cup {<<f, g>> : f, g \in DropFiles}

\* file.type.startsWith('image/')
startsWithImage(type) == type[1] = "image"

\* the filter of handleDropZoneDrop
validFile(file) == startsWithImage(file.type) /\ file.size <= TenMB

\* handleDropZoneDrop(dropFiles): the valid files get a uuid each and are
\* appended to files
handleDropZoneDrop(dropFiles) ==
    /\ LET validFiles == SelectSeq(dropFiles, validFile) IN
       /\ Len(dropped) + Len(validFiles) <= MaxDrop
       /\ dropped' = dropped \o validFiles
       /\ pageFiles' = pageFiles \o [i \in 1..Len(validFiles) |-> Len(dropped) + i]
    /\ UNCHANGED activeUploadsState
    /\ UNCHANGED hookVars
    /\ UNCHANGED umVars

\* removeFile(index) for the file shown at position index + 1
removeFile(index) ==
    /\ index + 1 \in 1..Len(pageFiles)
    /\ pageFiles' = SubSeq(pageFiles, 1, index) \o SubSeq(pageFiles, index + 2, Len(pageFiles))
    /\ UNCHANGED <<dropped, activeUploadsState>>
    /\ UNCHANGED hookVars
    /\ UNCHANGED umVars

\* handleSubmit() with a valid form, the property created: uploadFiles is
\* called with the selected files if there are any; the files stay
\* selected. The Save action is disabled while isUploading.
handleSubmit ==
    /\ ~isUploading
    /\ Len(pageFiles) > 0
    /\ uploadFiles(pageFiles)

\* the page with its hook: files are dropped, removed and submitted, and
\* the transfers of a submission succeed
NextPage ==
    \/ \E dropFiles \in DropInputs : handleDropZoneDrop(dropFiles)
    \/ \E index \in 0..MaxDrop : removeFile(index)
    \/ stale < MaxStale /\ handleSubmit
    \/ stale < MaxStale /\ \E b \in BatchIds : processQueueWakes(b)
    \/ stale < MaxStale /\ \E id \in FileIds, o \in Owners : uploadCompletes(id, o)
    \/ render

SpecPage == InitHookOnly /\ [][NextPage]_vars

\* File Types: JPG, PNG, WebP only; File Size: Maximum 10MB per image
Allowed(file) ==
    /\ file.type \in {<<"image", "jpeg">>, <<"image", "png">>, <<"image", "webp">>}
    /\ file.size <= TenMB

\* C31: every file among the selected files of the post page, and every
\* file submitted for upload, is a JPG, PNG or WebP of at most 10MB.
C31_OnlyAllowedFilesAccepted ==
    /\ \A i \in 1..Len(pageFiles) : Allowed(dropped[pageFiles[i]])
    /\ \A i \in 1..Len(uploads) : Allowed(dropped[uploads[i].id])

(***************************************************************************)
(* Part IV: useUploadManager with the active set in React state            *)
(***************************************************************************)

\* the ids in the activeUploads state: those of the Set object the running
\* uploadFiles call holds while the state still is that object
stateIds ==
    IF activeUploadsState.shared THEN activeUploadsSet[1] ELSE activeUploadsState.ids

\* uploadFiles(files, propertyId), up to the first await of processQueue.
\* The closure holds the Set object that is the activeUploads state of the
\* last render, and activeUploads.add changes that object in place. One
\* call is followed.
uploadFilesWithState(files) ==
    /\ batches = 0
    /\ LET b == 1
           s == startNewUploads(files, stateIds)
       IN /\ batches' = b
          /\ uploads' = markAllUploading(uploads \o newUploads(files), s.started)
          /\ fileQueue' = [fileQueue EXCEPT ![b] = s.rest]
          /\ activeUploadsSet' = [activeUploadsSet EXCEPT ![b] = s.active]
          /\ activeUploadsState' = [shared |-> TRUE, ids |-> {}]
          /\ transfers' = addTransfers(transfers, s.started, b)
          /\ attempts' = addAttempts(attempts, s.started)
          /\ IF files = <<>> /\ stateIds = {}
             THEN isUploading' = FALSE /\ loop' = [loop EXCEPT ![b] = "done"]
             ELSE isUploading' = TRUE /\ loop' = [loop EXCEPT ![b] = "sleeping"]
    /\ submitted + Len(files) <= MaxFiles
    /\ submitted' = submitted + Len(files)
    /\ cancelled' = cancelled \ Range(files)
    /\ cleared' = cleared \ Range(files)
    /\ events' = events + 1
    /\ UNCHANGED <<uploadsView, retries, stored>>
    /\ macrotask
    /\ UNCHANGED <<imageType, pageFiles, dropped>>
    /\ UNCHANGED umVars

\* the Set objects held by the uploadFiles calls after the finally block of
\* uploadSingleFile: it deletes from a copy, new Set(prev)
afterFinally(captured, uploadId) == captured

\* setActiveUploads(prev => { const newSet = new Set(prev);
\*                            newSet.delete(uploadId); return newSet })
copyWithout(prev, uploadId) == [shared |-> FALSE, ids |-> prev \ {uploadId}]

\* the API call of an uploadSingleFile call returns, as in uploadSettles;
\* the finally block replaces the activeUploads state by a copy without
\* the id
uploadSettlesWithState(id, o, cond, putOk) ==
    /\ transfers[<<id, o>>] > 0
    /\ transfers' = [transfers EXCEPT ![<<id, o>>] = @ - 1]
    /\ LET put == cond = "ok" /\ fileIsImage(id) /\ putOk
           response == uploadPropertyImages(POST(cond, fileIsImage(id), putOk, stored + 1))
       IN /\ stored' = IF put THEN stored + 1 ELSE stored
          /\ uploads' = IF response.success /\ response.hasUrls
                        THEN markCompleted(uploads, id, firstUrl(response.urls))
                        ELSE markError(uploads, id, errorText(response))
    /\ activeUploadsSet' = afterFinally(activeUploadsSet, id)
    /\ activeUploadsState' = copyWithout(stateIds, id)
    /\ UNCHANGED <<uploadsView, isUploading, batches, fileQueue, loop, attempts, retries>>
    /\ UNCHANGED <<events, submitted, cancelled, cleared>>
    /\ macrotask
    /\ UNCHANGED <<imageType, pageFiles, dropped>>
    /\ UNCHANGED umVars

uploadCompletesWithState(id, o) ==
    \E putOk \in BOOLEAN : uploadSettlesWithState(id, o, "ok", putOk)

uploadErrorsWithState(id, o) ==
    \E cond \in RequestConds \ {"ok"} : uploadSettlesWithState(id, o, cond, TRUE)

\* clearUploads(): setUploads([]), setIsUploading(false),
\* setActiveUploads(new Set())
clearUploadsWithState ==
    /\ events' = events + 1
    /\ uploads' = <<>>
    /\ isUploading' = FALSE
    /\ activeUploadsState' = [shared |-> FALSE, ids |-> {}]
    /\ UNCHANGED <<uploadsView, batches, fileQueue, activeUploadsSet, loop,
                   transfers, attempts, retries>>
    /\ UNCHANGED <<submitted, stored, cancelled>>
    /\ cleared' = cleared \cup Waiting
    /\ macrotask
    /\ UNCHANGED <<imageType, pageFiles, dropped>>
    /\ UNCHANGED umVars

\* the variant driven by a page: one uploadFiles call, at most MaxEvents
\* caller events; processQueue polls as in the hook, retryUpload and
\* removeUpload are those of the hook
NextState ==
    \/ stale < MaxStale /\ \E files \in FileBatches : uploadFilesWithState(files)
    \/ stale < MaxStale /\ \E b \in BatchIds : processQueueWakes(b)
    \/ stale < MaxStale /\ \E id \in FileIds, o \in Owners : uploadCompletesWithState(id, o)
    \/ stale < MaxStale /\ \E id \in FileIds, o \in Owners : uploadErrorsWithState(id, o)
    \/ stale < MaxStale /\ events < MaxEvents /\ \E id \in FileIds : removeUpload(id)
    \/ stale < MaxStale /\ \E id \in FileIds : retryUpload(id) /\ events' <= MaxEvents
    \/ stale < MaxStale /\ events < MaxEvents /\ clearUploadsWithState
    \/ render

SpecState == InitHookOnly /\ [][NextState]_vars

\* the timer of processQueue fires, every API call returns and React
\* renders
LiveSpecState ==
    /\ SpecState
    /\ WF_vars(stale < MaxStale /\ \E b \in BatchIds : processQueueWakes(b))
    /\ WF_vars(stale < MaxStale /\ \E id \in FileIds, o \in Owners :
                   uploadCompletesWithState(id, o) \/ uploadErrorsWithState(id, o))
    /\ WF_vars(render)

\* no uploadSingleFile call is awaiting the API
NoTransfer == \A x \in DOMAIN transfers : transfers[x] = 0

\* C32: a slot taken by a transfer is returned when the transfer finishes:
\* a file waiting in the fileQueue while a started transfer has finished is
\* eventually admitted, and once all transfers have finished the
\* processQueue loop exits and isUploading becomes false.
C32_SlotReturnedLoopExits ==
    /\ (/\ Len(fileQueue[1]) > 0
        /\ \E id \in activeUploadsSet[1] : transfers[<<id, 1>>] = 0)
           ~> (fileQueue[1] = <<>>)
    /\ (batches = 1 /\ fileQueue[1] = <<>> /\ NoTransfer)
           ~> (loop[1] = "done" /\ ~isUploading)

(***************************************************************************)
(* Part V: useUploadManager on top of the UploadManager                    *)
(***************************************************************************)

\* the string uuidv4() gave the n-th task: five groups of hexadecimal
\* digits joined by hyphens
uuid(n) == <<"uuid", n>>

\* the string `${Date.now()}-${Math.random()}` made for the n-th file handed
\* to the hook: decimal digits, a hyphen, and a decimal fraction
stamp(n) == <<"stamp", n>>

\* the task whose id is the string ident; 0 when no task has it
taskNumber(ident) == IF ident[1] = "uuid" THEN ident[2] ELSE 0

\* the file an upload entry was made for
fileNumber(upload) == upload.id[2]

\* progress values the interval of uploadFile reports
ProgressValues == {StartProgress, ProgressCeiling}

\* onProgress: prev.map(upload => upload.id === taskId
\*     ? { ...upload, progress, status: 'uploading' } : upload)
applyProgress(prev, taskId, progress) ==
    [i \in 1..Len(prev) |->
        IF prev[i].id = taskId
        THEN [prev[i] EXCEPT !.progress = progress, !.status = "uploading"]
        ELSE prev[i]]

\* updatedUploads.every(upload => upload.status === 'completed' ||
\*                                upload.status === 'error')
everyTerminal(ups) == \A i \in 1..Len(ups) : ups[i].status \in {"completed", "error"}

\* what the part of the hook state that this variant does not have keeps
backedFrame ==
    /\ UNCHANGED <<batches, fileQueue, activeUploadsSet, loop, transfers, attempts, retries,
                   submitted, stored, cancelled, cleared, imageType>>
    /\ UNCHANGED otherVars

\* uploadFiles(files, propertyId) with k files: the entries get ids of
\* their own, then uploadManager.addToQueue(files, propertyId, callbacks)
uploadFilesBacked(k) ==
    /\ uploads' = uploads \o newUploads([i \in 1..k |-> stamp(nextTaskId + i)])
    /\ isUploading' = TRUE
    /\ uploadManager_addToQueue(k)
    /\ events' = events + 1
    /\ UNCHANGED uploadsView
    /\ macrotask
    /\ backedFrame

\* the progress interval of uploadFile(task) calls onProgress(taskId, progress)
onProgressBacked(id, progress) ==
    /\ uploadManager_onProgress(id)
    /\ uploads' = applyProgress(uploads, uuid(id), progress)
    /\ UNCHANGED <<uploadsView, isUploading, events>>
    /\ macrotask
    /\ backedFrame

\* uploadFile(task) succeeds: onProgress(taskId, 100), onComplete(taskId, url)
uploadSucceedsBacked(id) ==
    /\ uploadManager_uploadFile(id, TRUE)
    /\ uploads' = markCompleted(applyProgress(uploads, uuid(id), FullProgress), uuid(id), id)
    /\ isUploading' = IF everyTerminal(markCompleted(uploadsView, uuid(id), id))
                      THEN FALSE ELSE isUploading
    /\ UNCHANGED <<uploadsView, events>>
    /\ macrotask
    /\ backedFrame

\* uploadFile(task) fails: onError(taskId, error)
uploadFailsBacked(id) ==
    /\ uploadManager_uploadFile(id, FALSE)
    /\ uploads' = markError(uploads, uuid(id), "Upload failed")
    /\ isUploading' = IF everyTerminal(markError(uploadsView, uuid(id), "Upload failed"))
                      THEN FALSE ELSE isUploading
    /\ UNCHANGED <<uploadsView, events>>
    /\ macrotask
    /\ backedFrame

\* removeUpload(uploadId): the entry is filtered out, then
\* uploadManager.removeFromQueue(uploadId)
removeUploadBacked(uploadId) ==
    /\ uploads' = filterOut(uploads, uploadId)
    /\ uploadManager_removeFromQueue(taskNumber(uploadId))
    /\ events' = events + 1
    /\ UNCHANGED <<uploadsView, isUploading>>
    /\ macrotask
    /\ backedFrame

\* clearUploads(): setUploads([]), uploadManager.clearQueue(),
\* setIsUploading(false)
clearUploadsBacked ==
    /\ uploads' = <<>>
    /\ uploadManager_clearQueue
    /\ isUploading' = FALSE
    /\ events' = events + 1
    /\ UNCHANGED uploadsView
    /\ macrotask
    /\ backedFrame

\* the variant driven by a page, with the module's singleton
\* UploadManager; removeUpload is called for an entry that is shown
NextBacked ==
    \/ stale < MaxStale /\ events < MaxEvents
           /\ \E k \in 0..MaxAdd : uploadFilesBacked(k) /\ nextTaskId' <= MaxObserved
    \/ stale < MaxStale /\ \E id \in TaskIds, p \in ProgressValues : onProgressBacked(id, p)
    \/ stale < MaxStale /\ \E id \in TaskIds : uploadSucceedsBacked(id)
    \/ stale < MaxStale /\ \E id \in TaskIds : uploadFailsBacked(id)
    \/ stale < MaxStale /\ events < MaxEvents
           /\ \E i \in 1..Len(uploadsView) : removeUploadBacked(uploadsView[i].id)
    \/ stale < MaxStale /\ events < MaxEvents /\ clearUploadsBacked
    \/ render

SpecBacked == InitHookOnly /\ [][NextBacked]_vars

\* C33: the entry of a file is tracked under the id that the UploadManager
\* uses in the callbacks for that file; when the transfer of the file has
\* succeeded the entry is completed, when it has failed the entry is error.
C33_EntryIdIsTaskId ==
    \A i \in 1..Len(uploads) :
        LET n == fileNumber(uploads[i]) IN
        /\ uploads[i].id = uuid(n)
        /\ task[n] = "ok" => uploads[i].status = "completed"
        /\ task[n] = "err" => uploads[i].status = "error"

====
